---- MODULE Spec2Model ----
(***************************************************************************)
(* A model of the gakuon-editor application controller (class App of       *)
(* src/src/app/index.ts): the open documents and the current one, the     *)
(* compile/assemble pipeline behind play and the exports, the jsSID        *)
(* player, the side panel the View menu fills, and Util.bench.             *)
(*                                                                         *)
(* Every handler is one action.  closeAllDocuments is a loop whose body    *)
(* waits on a collaborator, so it is a process with a position (pc).       *)
(* The variables lastOp, outcome, calls, prevFailed, startCount, removals  *)
(* and refusals observe a handler's run: which handler, how it ended (ok,  *)
(* or the exception that left it), and the calls it made on its            *)
(* collaborators, in order.                                                *)
(***************************************************************************)
EXTENDS Integers, Sequences, FiniteSets, Bags, TLC

VARIABLES
  children,       \* documentPanel's child widgets, in tab order
  currentWidget,  \* documentPanel.currentWidget (NoDoc is null)
  content,        \* editor.content of every open document ("" otherwise)
  nextId,         \* the identity the next `new DocumentPanel()` gets
  sidePanel,      \* the widgets of panel.sidePanel, a bag of titles
  playing,        \* jsSID: playback is running
  loaded,         \* jsSID: the data loadinitdata was last given
  pc,             \* "idle", or "closeAll" inside closeAllDocuments' loop
  lastOp,         \* the handler that ran last (or is running)
  outcome,        \* "ok", or the exception that handler threw
  calls,          \* the calls that handler made, in order
  prevFailed,     \* the handler before the last one threw
  startCount,     \* childCount() when closeAllDocuments was entered
  removals,       \* closes of this closeAllDocuments that removed a child
  refusals        \* closes of this closeAllDocuments that removed nothing

vars == <<children, currentWidget, content, nextId, sidePanel, playing, loaded,
          pc, lastOp, outcome, calls, prevFailed, startCount, removals, refusals>>

\* Bounds of the model.
MaxDocs == 2      \* documents created in one session
MaxPanels == 2    \* placeholder widgets inserted in one session
MaxStall == 2     \* closes one closeAllDocuments sees refused

NoDoc == 0

\* Source texts, by what the compiler and the assembler make of them.
Sources == {"malformed", "badasm", "valid"}

\* The three View-menu panels, by widget title.
Panels == {"Piano Roll", "Instrument Editor", "Oscilloscope"}

(***************************************************************************)
(* Values passed between the stages, and the record of one call.           *)
(***************************************************************************)
NoData == [kind |-> "none", src |-> "", player |-> FALSE]
Text(s) == [kind |-> "text", src |-> s, player |-> FALSE]
Asm(s, p) == [kind |-> "asm", src |-> s, player |-> p]
Obj(asm) == [kind |-> "obj", src |-> asm.src, player |-> asm.player]
Ev(fn, data, name) == [fn |-> fn, data |-> data, name |-> name]

\* A callback's run: it returned `value` (ok) or threw `err`, after `trace`.
Returned(value, trace) == [ok |-> TRUE, err |-> "ok", value |-> value, trace |-> trace]
Threw(err, trace) == [ok |-> FALSE, err |-> err, value |-> NoData, trace |-> trace]

\* Compiler.compile(source), of a Compiler built with {player: p}.
compile(source, p) ==
  LET call == <<Ev("compile", Text(source), IF p THEN "player" ELSE "")>>
  IN  IF source = "malformed" THEN Threw("CompileError", call)
      ELSE Returned(Asm(source, p), call)

\* Assembler.assemble(asm); objectCode is its value.
assemble(asm) ==
  LET call == <<Ev("assemble", asm, "")>>
  IN  IF asm.src = "badasm" THEN Threw("AssembleError", call)
      ELSE Returned(Obj(asm), call)

\* A bench that catches what the callback throws and carries on.
bench_swallow(name, run) ==
  [run EXCEPT !.ok = TRUE, !.err = "ok",
              !.trace = @ \o <<Ev("console.log", NoData, name)>>]

\* Util.bench(name, callback), given the callback's run.  timer('start'),
\* the callback, timer('stop'), console.log, return: there is no try, so
\* a callback that throws leaves bench at the call, before timer('stop')
\* and console.log.  The elapsed time logged is not modelled, only that
\* the line for `name` is written.
bench(name, run) ==
  IF run.ok
  THEN [run EXCEPT !.trace = @ \o <<Ev("console.log", NoData, name)>>]
  ELSE run

(***************************************************************************)
(* Helpers on sequences.                                                   *)
(***************************************************************************)
Range(s) == {s[i] : i \in 1..Len(s)}
Remove(s, d) == SelectSeq(s, LAMBDA x : x # d)
\* The calls of a trace on the collaborators (compiler, assembler, player,
\* file saver), without the diagnostic lines of bench.
External(trace) == SelectSeq(trace, LAMBDA e : e.fn # "console.log")
Count(trace, fn) == Cardinality({i \in 1..Len(trace) : trace[i].fn = fn})

(***************************************************************************)
(* How a handler's run is recorded.                                        *)
(***************************************************************************)
Record(op, result, trace) ==
  /\ lastOp' = op
  /\ outcome' = result
  /\ calls' = trace
  /\ prevFailed' = (outcome # "ok")
  /\ startCount' = 0
  /\ removals' = 0
  /\ refusals' = 0

\* The handler threw: nothing but the record changes.
Fail(op, err, trace) ==
  /\ Record(op, err, trace)
  /\ UNCHANGED <<children, currentWidget, content, nextId, sidePanel,
                 playing, loaded, pc>>

Init ==
  /\ children = <<>>
  /\ currentWidget = NoDoc
  /\ content = [d \in 1..MaxDocs |-> ""]
  /\ nextId = 1
  /\ sidePanel = EmptyBag
  /\ playing = FALSE
  /\ loaded = NoData
  /\ pc = "idle"
  /\ lastOp = "init"
  /\ outcome = "ok"
  /\ calls = <<>>
  /\ prevFailed = FALSE
  /\ startCount = 0
  /\ removals = 0
  /\ refusals = 0

(***************************************************************************)
(* The document widgets (../document and ./panel are not in src/).         *)
(***************************************************************************)
\* Widget.close() on child d that goes through: d leaves the panel and is
\* disposed, and the panel makes `next` current: another child, or null
\* when none is left.
CloseRemoves(d, next) ==
  /\ d \in Range(children)
  /\ children' = Remove(children, d)
  /\ IF Remove(children, d) = <<>> THEN next = NoDoc
     ELSE next \in Range(Remove(children, d))
  /\ currentWidget' = (IF currentWidget = d THEN next ELSE currentWidget)
  /\ content' = [content EXCEPT ![d] = ""]

\* Widget.close() on child d that the document does not carry out.
CloseRefused(d) ==
  /\ d \in Range(children)
  /\ UNCHANGED <<children, currentWidget, content>>

\* The user types in the current document's editor.
edit ==
  /\ pc = "idle"
  /\ currentWidget # NoDoc
  /\ \E s \in Sources : content' = [content EXCEPT ![currentWidget] = s]
  /\ Record("edit", "ok", <<>>)
  /\ UNCHANGED <<children, currentWidget, nextId, sidePanel, playing, loaded, pc>>

\* The user clicks another document's tab: App.currentDocument's setter.
selectTab ==
  /\ pc = "idle"
  /\ \E d \in Range(children) : d # currentWidget /\ currentWidget' = d
  /\ Record("selectTab", "ok", <<>>)
  /\ UNCHANGED <<children, content, nextId, sidePanel, playing, loaded, pc>>

(***************************************************************************)
(* Documents: Private.newFile, App.closeDocument, App.closeAllDocuments.   *)
(***************************************************************************)
\* newFile that adds the child and leaves currentWidget as it was.
newFile_nocurrent ==
  /\ pc = "idle"
  /\ nextId <= MaxDocs
  /\ children' = Append(children, nextId)
  /\ \E s \in Sources : content' = [content EXCEPT ![nextId] = s]
  /\ nextId' = nextId + 1
  /\ Record("newFile", "ok", <<>>)
  /\ UNCHANGED <<currentWidget, sidePanel, playing, loaded, pc>>

\* Private.newFile: a new DocumentPanel, added to documentPanel and made
\* the current document.  The text the new editor starts with is the
\* DocumentPanel's business: any of Sources.
newFile ==
  /\ pc = "idle"
  /\ nextId <= MaxDocs
  /\ children' = Append(children, nextId)
  /\ currentWidget' = nextId
  /\ \E s \in Sources : content' = [content EXCEPT ![nextId] = s]
  /\ nextId' = nextId + 1
  /\ Record("newFile", "ok", <<>>)
  /\ UNCHANGED <<sidePanel, playing, loaded, pc>>

\* App.closeDocument: this.currentDocument.close().  With no current
\* document the receiver is null and the call throws a TypeError.
closeDocument ==
  /\ pc = "idle"
  /\ IF currentWidget = NoDoc
     THEN Fail("closeDocument", "TypeError", <<>>)
     ELSE /\ \/ \E next \in Range(children) \cup {NoDoc} :
                  CloseRemoves(currentWidget, next)
             \/ CloseRefused(currentWidget)
          /\ Record("closeDocument", "ok",
                    <<Ev("close", NoData, ToString(currentWidget))>>)
          /\ UNCHANGED <<nextId, sidePanel, playing, loaded, pc>>

\* App.closeAllDocuments, entered: docPanel is fetched, the loop is next.
closeAllDocuments ==
  /\ pc = "idle"
  /\ pc' = "closeAll"
  /\ lastOp' = "closeAll"
  /\ outcome' = "ok"
  /\ calls' = <<>>
  /\ prevFailed' = (outcome # "ok")
  /\ startCount' = Len(children)
  /\ removals' = 0
  /\ refusals' = 0
  /\ UNCHANGED <<children, currentWidget, content, nextId, sidePanel, playing, loaded>>

\* The loop's test, off by one: childCount() > 1.
loopTest_offByOne == Len(children) > 1

\* The loop's test: docPanel.childCount() > 0.
loopTest == Len(children) > 0

\* One turn of the loop: childCount() > 0, so docPanel.currentWidget.close()
\* is called, and control is back at the test.  The close removes the child,
\* or returns with the child still there.
closeAllStep ==
  /\ pc = "closeAll"
  /\ loopTest
  /\ IF currentWidget = NoDoc
     THEN /\ outcome' = "TypeError"
          /\ pc' = "idle"
          /\ UNCHANGED <<children, currentWidget, content, calls, removals, refusals>>
     ELSE /\ calls' = Append(calls, Ev("close", NoData, ToString(currentWidget)))
          /\ \/ /\ \E next \in Range(children) \cup {NoDoc} :
                     CloseRemoves(currentWidget, next)
                /\ removals' = removals + 1
                /\ UNCHANGED refusals
             \/ /\ refusals < MaxStall
                /\ CloseRefused(currentWidget)
                /\ refusals' = refusals + 1
                /\ UNCHANGED removals
          /\ UNCHANGED <<pc, outcome>>
  /\ UNCHANGED <<nextId, sidePanel, playing, loaded, lastOp, prevFailed, startCount>>

\* The loop's test fails: closeAllDocuments returns.
closeAllExit ==
  /\ pc = "closeAll"
  /\ ~loopTest
  /\ pc' = "idle"
  /\ UNCHANGED <<children, currentWidget, content, nextId, sidePanel, playing,
                 loaded, lastOp, outcome, calls, prevFailed, startCount,
                 removals, refusals>>

(***************************************************************************)
(* The pipeline: App.play, stop, exportSID, exportASM, exportPlayer.       *)
(***************************************************************************)
\* The calls a handler makes to hand over its artifact.
\* The player started before the data is loaded.
PlayerCalls_swapped(obj) == <<Ev("playcont", NoData, ""), Ev("loadinitdata", obj, "0")>>
PlayerCalls(obj) == <<Ev("loadinitdata", obj, "0"), Ev("playcont", NoData, "")>>
SaveCall(data, filename) == <<Ev("saveAs", data, filename)>>

\* App.play: the current document's text is compiled, the assembly is
\* assembled, the object code is loaded into the player and played.  An
\* exception of either stage leaves play at that line.
play ==
  /\ pc = "idle"
  /\ IF currentWidget = NoDoc THEN Fail("play", "TypeError", <<>>)
     ELSE LET asm == bench("compile", compile(content[currentWidget], FALSE))
              obj == bench("assemble", assemble(asm.value))
          IN  IF ~asm.ok THEN Fail("play", asm.err, asm.trace)
              ELSE IF ~obj.ok THEN Fail("play", obj.err, asm.trace \o obj.trace)
              ELSE /\ loaded' = obj.value
                   /\ playing' = TRUE
                   /\ Record("play", "ok",
                             asm.trace \o obj.trace \o PlayerCalls(obj.value))
                   /\ UNCHANGED <<children, currentWidget, content, nextId, sidePanel, pc>>

\* App.stop: this._player.stop().
stop ==
  /\ pc = "idle"
  /\ playing' = FALSE
  /\ Record("stop", "ok", <<Ev("stop", NoData, "")>>)
  /\ UNCHANGED <<children, currentWidget, content, nextId, sidePanel, loaded, pc>>

\* exportSID whose failure path closes the document it could not export.
exportSID_dropsDoc ==
  /\ pc = "idle"
  /\ IF currentWidget = NoDoc THEN Fail("exportSID", "TypeError", <<>>)
     ELSE LET asm == bench("compile", compile(content[currentWidget], FALSE))
              obj == bench("assemble", assemble(asm.value))
          IN  IF ~asm.ok \/ ~obj.ok
              THEN /\ \E next \in Range(children) \cup {NoDoc} :
                        CloseRemoves(currentWidget, next)
                   /\ Record("exportSID", IF asm.ok THEN obj.err ELSE asm.err, asm.trace)
                   /\ UNCHANGED <<nextId, sidePanel, playing, loaded, pc>>
              ELSE /\ Record("exportSID", "ok",
                             asm.trace \o obj.trace \o SaveCall(obj.value, "Untitled.sid"))
                   /\ UNCHANGED <<children, currentWidget, content, nextId, sidePanel,
                                  playing, loaded, pc>>

\* App.exportSID: as play, and the object code goes to saveAs.
exportSID ==
  /\ pc = "idle"
  /\ IF currentWidget = NoDoc THEN Fail("exportSID", "TypeError", <<>>)
     ELSE LET asm == bench("compile", compile(content[currentWidget], FALSE))
              obj == bench("assemble", assemble(asm.value))
          IN  IF ~asm.ok THEN Fail("exportSID", asm.err, asm.trace)
              ELSE IF ~obj.ok THEN Fail("exportSID", obj.err, asm.trace \o obj.trace)
              ELSE /\ Record("exportSID", "ok",
                             asm.trace \o obj.trace \o SaveCall(obj.value, "Untitled.sid"))
                   /\ UNCHANGED <<children, currentWidget, content, nextId, sidePanel,
                                  playing, loaded, pc>>

\* exportASM that assembles as exportSID does before it saves the text.
exportASM_assembles ==
  /\ pc = "idle"
  /\ IF currentWidget = NoDoc THEN Fail("exportASM", "TypeError", <<>>)
     ELSE LET asm == bench("compile", compile(content[currentWidget], FALSE))
              obj == bench("assemble", assemble(asm.value))
          IN  IF ~asm.ok THEN Fail("exportASM", asm.err, asm.trace)
              ELSE IF ~obj.ok THEN Fail("exportASM", obj.err, asm.trace \o obj.trace)
              ELSE /\ Record("exportASM", "ok",
                             asm.trace \o obj.trace \o SaveCall(asm.value, "Untitled.asm"))
                   /\ UNCHANGED <<children, currentWidget, content, nextId, sidePanel,
                                  playing, loaded, pc>>

\* App.exportASM: the text is compiled and the assembly goes to saveAs.
exportASM ==
  /\ pc = "idle"
  /\ IF currentWidget = NoDoc THEN Fail("exportASM", "TypeError", <<>>)
     ELSE LET asm == bench("compile", compile(content[currentWidget], FALSE))
          IN  IF ~asm.ok THEN Fail("exportASM", asm.err, asm.trace)
              ELSE /\ Record("exportASM", "ok",
                             asm.trace \o SaveCall(asm.value, "Untitled.asm"))
                   /\ UNCHANGED <<children, currentWidget, content, nextId, sidePanel,
                                  playing, loaded, pc>>

\* App.exportPlayer: as exportSID, with a Compiler built with {player: true}.
exportPlayer ==
  /\ pc = "idle"
  /\ IF currentWidget = NoDoc THEN Fail("exportPlayer", "TypeError", <<>>)
     ELSE LET asm == bench("compile", compile(content[currentWidget], TRUE))
              obj == bench("assemble", assemble(asm.value))
          IN  IF ~asm.ok THEN Fail("exportPlayer", asm.err, asm.trace)
              ELSE IF ~obj.ok THEN Fail("exportPlayer", obj.err, asm.trace \o obj.trace)
              ELSE /\ Record("exportPlayer", "ok",
                             asm.trace \o obj.trace \o SaveCall(obj.value, "Untitled.prg"))
                   /\ UNCHANGED <<children, currentWidget, content, nextId, sidePanel,
                                  playing, loaded, pc>>

(***************************************************************************)
(* The View menu: Private.viewPianoRoll, viewInstrumentEditor,             *)
(* viewOscilloscope.                                                       *)
(***************************************************************************)
\* createPlaceholder(title, color) and sidePanel.insertRight(panel): a new
\* widget with that title joins the side panel, whatever is there already.
insertPlaceholder(op, title) ==
  /\ pc = "idle"
  /\ BagCardinality(sidePanel) < MaxPanels
  /\ sidePanel' = sidePanel (+) SetToBag({title})
  /\ Record(op, "ok", <<Ev("insertRight", NoData, title)>>)
  /\ UNCHANGED <<children, currentWidget, content, nextId, playing, loaded, pc>>

viewPianoRoll == insertPlaceholder("viewPianoRoll", "Piano Roll")

viewInstrumentEditor == insertPlaceholder("viewInstrumentEditor", "Instrument Editor")

viewOscilloscope == insertPlaceholder("viewOscilloscope", "Oscilloscope")

Next ==
  \/ newFile
  \/ edit
  \/ selectTab
  \/ closeDocument
  \/ closeAllDocuments
  \/ closeAllStep
  \/ closeAllExit
  \/ play
  \/ stop
  \/ exportSID
  \/ exportASM
  \/ exportPlayer
  \/ viewPianoRoll
  \/ viewInstrumentEditor
  \/ viewOscilloscope

Spec == Init /\ [][Next]_vars

(***************************************************************************)
(* The claims.                                                             *)
(***************************************************************************)
Distinct(s) == \A i, j \in 1..Len(s) : i # j => s[i] # s[j]
Called(fn) == \E i \in 1..Len(calls) : calls[i].fn = fn
Logged(name) ==
  \E i \in 1..Len(calls) : calls[i].fn = "console.log" /\ calls[i].name = name
\* The documents created so far that are open no longer.
ClosedDocs == (1..(nextId - 1)) \ Range(children)

\* C1: the current document is null exactly when no document is open, and
\* otherwise is one of the open documents, never a closed one.
C1_CurrentIsOpenDocument ==
  /\ (currentWidget = NoDoc) <=> (children = <<>>)
  /\ currentWidget # NoDoc => currentWidget \in Range(children)
  /\ currentWidget \notin ClosedDocs

\* C1 witness: a close went through and left documents open.
C1_Witness ==
  /\ lastOp = "closeDocument"
  /\ ClosedDocs # {}
  /\ children # <<>>

\* C2: a closeAllDocuments whose closes all remove their document makes one
\* removal per document open at entry, closes no document twice, and returns
\* with no document open and no current document.
C2_CloseAllRemovesEach ==
  (lastOp = "closeAll" /\ refusals = 0) =>
    /\ removals = Len(calls)
    /\ removals + Len(children) = startCount
    /\ Distinct(calls)
    /\ pc = "idle" =>
         /\ outcome = "ok"
         /\ removals = startCount
         /\ children = <<>>
         /\ currentWidget = NoDoc

\* C2 witness: closeAllDocuments has returned from a session of two or more
\* documents, with no close refused.
C2_Witness ==
  /\ lastOp = "closeAll"
  /\ pc = "idle"
  /\ refusals = 0
  /\ startCount >= 2

\* C3: once a close of closeAllDocuments has returned with its document
\* still open, closeAllDocuments does not call close on that document
\* again, and it does not return as if nothing had gone wrong.
C3_CloseAllSurfacesRefusal ==
  (lastOp = "closeAll" /\ refusals > 0) =>
    /\ Distinct(calls)
    /\ pc = "idle" => outcome # "ok"

\* C4: a play, exportSID or exportPlayer whose compile was given text the
\* compiler rejects ends with the CompileError, and has called neither the
\* assembler, nor the player, nor saveAs.
C4_CompileFailureSkipsTheRest ==
  (/\ lastOp \in {"play", "exportSID", "exportPlayer"}
   /\ \E i \in 1..Len(calls) :
        calls[i].fn = "compile" /\ calls[i].data.src = "malformed") =>
    /\ outcome = "CompileError"
    /\ ~Called("assemble")
    /\ ~Called("loadinitdata")
    /\ ~Called("playcont")
    /\ ~Called("saveAs")
    /\ Count(calls, "compile") = 1

\* C4 witness: each of the three handlers can end in a CompileError; here
\* exportPlayer has.
C4_Witness ==
  /\ lastOp = "exportPlayer"
  /\ outcome = "CompileError"
  /\ Called("compile")

\* C5: exportASM on text that compiles calls compile once, never assemble,
\* and saveAs with the compiler's assembly under the name Untitled.asm.
C5_ExportAsmSkipsAssembler ==
  (/\ lastOp = "exportASM"
   /\ currentWidget # NoDoc
   /\ content[currentWidget] # "malformed") =>
    /\ outcome = "ok"
    /\ External(calls) =
         << Ev("compile", Text(content[currentWidget]), ""),
            Ev("saveAs", Asm(content[currentWidget], FALSE), "Untitled.asm") >>

\* C5 witness: exportASM has run on text the assembler would reject.
C5_Witness ==
  /\ lastOp = "exportASM"
  /\ currentWidget # NoDoc
  /\ content[currentWidget] = "badasm"
  /\ Called("saveAs")

\* C6: play on valid text calls compile, assemble on the assembly,
\* loadinitdata with the object code and playcont, in that order and
\* nothing else; and a stop ends without error with nothing playing.
C6_PlayCallOrder ==
  /\ (/\ lastOp = "play"
      /\ currentWidget # NoDoc
      /\ content[currentWidget] = "valid") =>
       /\ outcome = "ok"
       /\ External(calls) =
            << Ev("compile", Text("valid"), ""),
               Ev("assemble", Asm("valid", FALSE), ""),
               Ev("loadinitdata", Obj(Asm("valid", FALSE)), "0"),
               Ev("playcont", NoData, "") >>
       /\ playing
       /\ loaded = Obj(Asm("valid", FALSE))
  /\ lastOp = "stop" => (outcome = "ok" /\ ~playing)

\* C6 witness: a stop has run after a play that loaded the player.
C6_Witness ==
  /\ lastOp = "stop"
  /\ loaded = Obj(Asm("valid", FALSE))
  /\ ~playing

\* C7: a play that succeeds while the player is playing calls the player's
\* stop before it calls loadinitdata.
C7_ReplayStopsFirst ==
  [][(playing /\ lastOp' = "play" /\ outcome' = "ok") =>
       \E i, j \in 1..Len(calls') :
         i < j /\ calls'[i].fn = "stop" /\ calls'[j].fn = "loadinitdata"]_vars

\* C8: the side panel never holds two widgets of the same View-menu panel.
C8_OneInstancePerPanel ==
  \A title \in Panels : CopiesIn(title, sidePanel) <= 1

\* C9: a handler that ended in a stage's exception has written that
\* stage's bench line.
C9_BenchReportsFailedStage ==
  /\ outcome = "CompileError" => Logged("compile")
  /\ outcome = "AssembleError" => Logged("assemble")

\* C10: a handler that throws leaves the open documents, the current
\* document, the documents' text and the side panel as they were.
C10_FailureLeavesSessionIntact ==
  [][(/\ lastOp' \in {"play", "exportSID", "exportASM", "exportPlayer", "closeDocument"}
      /\ outcome' # "ok") =>
       /\ children' = children
       /\ currentWidget' = currentWidget
       /\ content' = content
       /\ sidePanel' = sidePanel]_vars

\* C10 witness: a pipeline handler has succeeded right after a handler
\* threw, on a session with a document open and a panel inserted.
C10_Witness ==
  /\ prevFailed
  /\ outcome = "ok"
  /\ lastOp \in {"play", "exportSID", "exportASM", "exportPlayer"}
  /\ sidePanel # EmptyBag

====
